---------------------------- MODULE Spec2Model ----------------------------
(***************************************************************************)
(* Model of data_model.c: the time-expanded network builder.               *)
(*                                                                         *)
(* The translation unit is parameterised by three macros (N_HUBS, T,       *)
(* M_RESTRICTED).  They are state variables here, fixed by Init and never  *)
(* changed, so that one model covers the source as written (3, 3, 1) and   *)
(* the same source compiled with other small macro values.                 *)
(*                                                                         *)
(* graph[] is modelled as a function from node id to the sequence of the   *)
(* node's first `count` edges: graph[n].count is Len(graph[n]) and         *)
(* graph[n].edges[j] is graph[n][j+1].                                     *)
(***************************************************************************)
EXTENDS Integers, Sequences, FiniteSets

VARIABLES
    N_HUBS,        \* #define N_HUBS
    T,             \* #define T
    M_RESTRICTED,  \* #define M_RESTRICTED
    graph,         \* AdjList graph[TOTAL_NODES]
    pc,            \* position in main / build_example
    t,             \* loop variable t of the current for loop
    u,             \* loop variable u of the inner split loop
    ub,            \* TRUE once a write has landed outside graph[] or edges[]
    last,          \* arguments of the latest add_edge call, <<>> before any
    ids            \* ids returned by the id helpers so far (index walk)

vars == <<N_HUBS, T, M_RESTRICTED, graph, pc, t, u, ub, last, ids>>

\* ------------------------------------------------------------------ bounds

MaxHubs == 4
MaxT == 4
MaxR == 2

\* --------------------------------------------------------- source constants

N_HUBS_SRC == 3
T_SRC == 3
M_RESTRICTED_SRC == 1
MAX_EDGES == 128

\* ------------------------------------------------------------------ macros

HUB_TIME_COUNT == (T + 1) * N_HUBS
HUB_SPLIT_COUNT == 2 * HUB_TIME_COUNT
TRANSIT_OFFSET == HUB_SPLIT_COUNT
TRANSIT_COUNT == (T + 1) * M_RESTRICTED
TOTAL_NODES == HUB_SPLIT_COUNT + TRANSIT_COUNT

\* -------------------------------------------------------------- id helpers

\* Variant with the operands exchanged (u * N_HUBS + t).
hub_time_swapped(uu, tt) == uu * N_HUBS + tt
hub_time(uu, tt) == tt * N_HUBS + uu

IN_(uu, tt) == 2 * hub_time(uu, tt)

OUT(uu, tt) == 2 * hub_time(uu, tt) + 1

TRANSIT(e, t_wait) == TRANSIT_OFFSET + t_wait * M_RESTRICTED + e

\* ---------------------------------------------------------------- add_edge

Edge(to, cap) == [to |-> to, cap |-> cap]

\* The outcomes of one add_edge call on store g.  A call whose `from` is not
\* an index of graph[], or whose node already holds MAX_EDGES edges, writes
\* outside an array: undefined behaviour, modelled as the set of outcomes a
\* build can produce (the stray write is lost, the process dies, or, for
\* edges[MAX_EDGES], the write lands on the adjacent count field).
Clobbered(list, to, cap) ==
    [i \in 1..(to + 1) |->
        IF i = to + 1 THEN Edge(list[i].to, cap) ELSE list[i]]

\* Variant that stores the new edge at the front of the list.
add_edge_prepend(g, from, to, cap) ==
    IF from \notin DOMAIN g
    THEN {[graph |-> g, ub |-> TRUE, crash |-> c] : c \in BOOLEAN}
    ELSE {[graph |-> [g EXCEPT ![from] = <<Edge(to, cap)>> \o @],
           ub |-> FALSE, crash |-> FALSE]}

add_edge(g, from, to, cap) ==
    IF from \notin DOMAIN g
    THEN {[graph |-> g, ub |-> TRUE, crash |-> c] : c \in BOOLEAN}
    ELSE IF Len(g[from]) >= MAX_EDGES
    THEN {[graph |-> g, ub |-> TRUE, crash |-> c] : c \in BOOLEAN}
         \cup (IF to \in 0..(MAX_EDGES - 1)
               THEN {[graph |-> [g EXCEPT ![from] = Clobbered(@, to, cap)],
                      ub |-> TRUE, crash |-> FALSE]}
               ELSE {})
    ELSE {[graph |-> [g EXCEPT ![from] = Append(@, Edge(to, cap))],
           ub |-> FALSE, crash |-> FALSE]}

\* One add_edge(from, to, cap) statement of build_example, followed by the
\* move to position nextpc with loop variables nt, nu.
Call(from, to, cap, nextpc, nt, nu) ==
    \E o \in add_edge(graph, from, to, cap) :
        /\ graph' = o.graph
        /\ ub' = (ub \/ o.ub)
        /\ last' = <<from, to, cap>>
        /\ pc' = IF o.crash THEN "crashed" ELSE nextpc
        /\ t' = nt
        /\ u' = nu
        /\ UNCHANGED <<N_HUBS, T, M_RESTRICTED, ids>>

Goto(nextpc, nt, nu) ==
    /\ pc' = nextpc
    /\ t' = nt
    /\ u' = nu
    /\ UNCHANGED <<N_HUBS, T, M_RESTRICTED, graph, ub, last, ids>>

\* ----------------------------------------------------------- build_example

eid == 0

\* The hubs build_example hard-codes: waiting at hubs 0 and 2, the restricted
\* route 0 -> 1 and the normal route 1 -> 2, each as <<origin, destination>>.
WaitHubA == 0
WaitHubB == 2

RestrictedRoute == <<0, 1>>

\* Variant: the normal route returning to its own origin.
NormalRoute_self == <<1, 1>>
NormalRoute == <<1, 2>>

\* Loop conditions, each preceded by its off-by-one variant.
SplitCond_lt(tt) == tt < T
SplitCond(tt) == tt <= T

WaitCond_le(tt) == tt <= T
WaitCond(tt) == tt < T

RestrictedCond_m1(tt) == tt <= T - 1
RestrictedCond(tt) == tt <= T - 2

NormalCond_le(tt) == tt <= T
NormalCond(tt) == tt < T

\* 1) node split edges
Split ==
    /\ pc = "split"
    /\ SplitCond(t)
    /\ u < N_HUBS
    /\ IF u + 1 < N_HUBS
       THEN Call(IN_(u, t), OUT(u, t), 1, "split", t, u + 1)
       ELSE Call(IN_(u, t), OUT(u, t), 1, "split", t + 1, 0)

SplitExit ==
    /\ pc = "split"
    /\ ~SplitCond(t)
    /\ Goto("wait0", 0, 0)

\* 2) wait edges, hub 0 then hub 2
Wait0 ==
    /\ pc = "wait0"
    /\ WaitCond(t)
    /\ Call(OUT(WaitHubA, t), IN_(WaitHubA, t + 1), 100, "wait2", t, 0)

Wait2 ==
    /\ pc = "wait2"
    /\ Call(OUT(WaitHubB, t), IN_(WaitHubB, t + 1), 100, "wait0", t + 1, 0)

WaitExit ==
    /\ pc = "wait0"
    /\ ~WaitCond(t)
    /\ Goto("enter", 0, 0)

\* 3) restricted edge 0 -> 1 through a transit slot
TransitEnter ==
    /\ pc = "enter"
    /\ RestrictedCond(t)
    /\ Call(OUT(RestrictedRoute[1], t), TRANSIT(eid, t + 1), 1, "force", t, 0)

TransitForce ==
    /\ pc = "force"
    /\ Call(TRANSIT(eid, t + 1), IN_(RestrictedRoute[2], t + 2), 100,
            "enter", t + 1, 0)

RestrictedExit ==
    /\ pc = "enter"
    /\ ~RestrictedCond(t)
    /\ Goto("normal", 0, 0)

\* 4) normal edge 1 -> 2
Normal ==
    /\ pc = "normal"
    /\ NormalCond(t)
    /\ Call(OUT(NormalRoute[1], t), IN_(NormalRoute[2], t + 1), 1,
            "normal", t + 1, 0)

NormalExit ==
    /\ pc = "normal"
    /\ ~NormalCond(t)
    /\ Goto("done", 0, 0)

\* ------------------------------------------------------------------- specs

EmptyStore == [n \in 0..(TOTAL_NODES - 1) |-> <<>>]

Init ==
    /\ N_HUBS \in 1..MaxHubs
    /\ T \in 0..MaxT
    /\ M_RESTRICTED \in 0..MaxR
    /\ graph = EmptyStore
    /\ pc = "split"
    /\ t = 0
    /\ u = 0
    /\ ub = FALSE
    /\ last = <<>>
    /\ ids = <<>>

Next ==
    \/ Split
    \/ SplitExit
    \/ Wait0
    \/ Wait2
    \/ WaitExit
    \/ TransitEnter
    \/ TransitForce
    \/ RestrictedExit
    \/ Normal
    \/ NormalExit

Spec == Init /\ [][Next]_vars

\* ---------------------------------------------------------------- id walk
\* The id helpers applied to every valid coordinate, family by family, each
\* returned id recorded in ids.

Record(fam, a, tt, id) == [fam |-> fam, a |-> a, t |-> tt, id |-> id]

Walk(rec, nextpc, nt, nu) ==
    /\ ids' = Append(ids, rec)
    /\ pc' = nextpc
    /\ t' = nt
    /\ u' = nu
    /\ UNCHANGED <<N_HUBS, T, M_RESTRICTED, graph, ub, last>>

WalkIn ==
    /\ pc = "id_in"
    /\ t <= T
    /\ IF u + 1 < N_HUBS
       THEN Walk(Record("in", u, t, IN_(u, t)), "id_in", t, u + 1)
       ELSE Walk(Record("in", u, t, IN_(u, t)), "id_in", t + 1, 0)

WalkInExit ==
    /\ pc = "id_in"
    /\ t > T
    /\ Goto("id_out", 0, 0)

WalkOut ==
    /\ pc = "id_out"
    /\ t <= T
    /\ IF u + 1 < N_HUBS
       THEN Walk(Record("out", u, t, OUT(u, t)), "id_out", t, u + 1)
       ELSE Walk(Record("out", u, t, OUT(u, t)), "id_out", t + 1, 0)

WalkOutExit ==
    /\ pc = "id_out"
    /\ t > T
    /\ Goto("id_transit", 0, 0)

WalkTransit ==
    /\ pc = "id_transit"
    /\ t <= T
    /\ u < M_RESTRICTED
    /\ IF u + 1 < M_RESTRICTED
       THEN Walk(Record("transit", u, t, TRANSIT(u, t)), "id_transit", t, u + 1)
       ELSE Walk(Record("transit", u, t, TRANSIT(u, t)), "id_transit", t + 1, 0)

WalkTransitExit ==
    /\ pc = "id_transit"
    /\ t > T \/ M_RESTRICTED = 0
    /\ Goto("id_done", 0, 0)

IdInit ==
    /\ N_HUBS \in 1..MaxHubs
    /\ T \in 0..MaxT
    /\ M_RESTRICTED \in 0..MaxR
    /\ graph = EmptyStore
    /\ pc = "id_in"
    /\ t = 0
    /\ u = 0
    /\ ub = FALSE
    /\ last = <<>>
    /\ ids = <<>>

IdNext ==
    \/ WalkIn
    \/ WalkInExit
    \/ WalkOut
    \/ WalkOutExit
    \/ WalkTransit
    \/ WalkTransitExit

IdSpec == IdInit /\ [][IdNext]_vars

\* ------------------------------------------------------------- store calls
\* add_edge called directly, any number of times, on the zero-initialised
\* store of the source as written.

StoreFrom == {OUT(0, 0), OUT(1, 0)}
StoreTo == {IN_(2, 1)}
StoreCap == {1}

StoreAdd ==
    /\ pc = "store"
    /\ ~ub
    /\ \E from \in StoreFrom, to \in StoreTo, cap \in StoreCap :
          Call(from, to, cap, "store", 0, 0)

StoreInit ==
    /\ N_HUBS = N_HUBS_SRC
    /\ T = T_SRC
    /\ M_RESTRICTED = M_RESTRICTED_SRC
    /\ graph = EmptyStore
    /\ pc = "store"
    /\ t = 0
    /\ u = 0
    /\ ub = FALSE
    /\ last = <<>>
    /\ ids = <<>>

StoreNext == StoreAdd

StoreSpec == StoreInit /\ [][StoreNext]_vars

\* ------------------------------------------------------- derived notions

SrcConfig ==
    /\ N_HUBS = N_HUBS_SRC
    /\ T = T_SRC
    /\ M_RESTRICTED = M_RESTRICTED_SRC

Hubs == 0..(N_HUBS - 1)
Times == 0..T
Nodes == 0..(TOTAL_NODES - 1)

InNodes == {IN_(uu, tt) : uu \in Hubs, tt \in Times}
OutNodes == {OUT(uu, tt) : uu \in Hubs, tt \in Times}
TransitNodes == {TRANSIT(e, tt) : e \in 0..(M_RESTRICTED - 1), tt \in Times}

\* Every stored edge as <<from, position, to, cap>>.
Stored ==
    UNION {{<<n, i, graph[n][i].to, graph[n][i].cap>> : i \in 1..Len(graph[n])}
           : n \in DOMAIN graph}

EdgeCount == Cardinality(Stored)

HasEdge(a, b, c) == \E e \in Stored : e[1] = a /\ e[3] = b /\ e[4] = c

Links(a, b) == {e \in Stored : e[1] = a /\ e[3] = b}

SplitEdges ==
    {e \in Stored : \E uu \in Hubs, tt \in Times :
        e[1] = IN_(uu, tt) /\ e[3] = OUT(uu, tt) /\ e[4] = 1}

WaitEdges ==
    {e \in Stored : \E uu \in Hubs, tt \in 0..(T - 1) :
        e[1] = OUT(uu, tt) /\ e[3] = IN_(uu, tt + 1) /\ e[4] = 100}

EnterEdges ==
    {e \in Stored : \E tt \in 0..(T - 2) :
        e[1] = OUT(0, tt) /\ e[3] = TRANSIT(0, tt + 1) /\ e[4] = 1}

ForceEdges ==
    {e \in Stored : \E tt \in 0..(T - 2) :
        e[1] = TRANSIT(0, tt + 1) /\ e[3] = IN_(1, tt + 2) /\ e[4] = 100}

TransitTouching == {e \in Stored : e[1] \in TransitNodes \/ e[3] \in TransitNodes}

DirectEdges ==
    {e \in Stored : \E tt \in 0..(T - 1) :
        e[1] = OUT(1, tt) /\ e[3] = IN_(2, tt + 1) /\ e[4] = 1}

Succ(S) == S \cup {e[3] : e \in {x \in Stored : x[1] \in S}}

RECURSIVE Closure(_, _)
Closure(S, k) == IF k = 0 \/ Succ(S) = S THEN S ELSE Closure(Succ(S), k - 1)

\* The nodes reachable from node a along one or more stored edges.
ReachableFrom(a) == Closure({e[3] : e \in {x \in Stored : x[1] = a}}, TOTAL_NODES)

IsPrefix(p, q) == Len(p) <= Len(q) /\ \A i \in 1..Len(p) : p[i] = q[i]

\* ------------------------------------------------------------------ claims

\* C1: IN(hub,t), OUT(hub,t) over 0 <= hub < N_HUBS, 0 <= t <= T and
\* TRANSIT(route,t) over 0 <= route < M_RESTRICTED, 0 <= t <= T never return
\* the same id for two distinct coordinates, return only ids in
\* [0, TOTAL_NODES), and once every coordinate has been indexed every id of
\* that range has been returned exactly once, with
\* TOTAL_NODES = 2*H*(T+1) + R*(T+1).
C1_Bijection ==
    /\ \A i \in 1..Len(ids) : ids[i].id \in Nodes
    /\ \A i, j \in 1..Len(ids) :
         i # j => /\ ids[i].id # ids[j].id
                  /\ <<ids[i].fam, ids[i].a, ids[i].t>>
                       # <<ids[j].fam, ids[j].a, ids[j].t>>
    /\ pc = "id_done" =>
         /\ TOTAL_NODES = 2 * N_HUBS * (T + 1) + M_RESTRICTED * (T + 1)
         /\ Len(ids) = TOTAL_NODES
         /\ {ids[i].id : i \in 1..Len(ids)} = Nodes

C1_Witness ==
    /\ SrcConfig
    /\ pc = "id_done"
    /\ Len(ids) = 28
    /\ \E i \in 1..Len(ids) : ids[i].fam = "transit" /\ ids[i].id = 27

\* C2: after one complete build of the source configuration (3 hubs, T = 3,
\* one restricted route) the store holds exactly 12 capacity-split edges,
\* 6 wait edges, 4 restricted-route edges and 3 unrestricted edges, 25 in all.
C2_EdgeCounts ==
    (SrcConfig /\ pc = "done") =>
        /\ Cardinality(SplitEdges) = 12
        /\ Cardinality(WaitEdges) = 6
        /\ Cardinality(EnterEdges) = 2
        /\ Cardinality(ForceEdges) = 2
        /\ Cardinality(TransitTouching) = 4
        /\ Cardinality(DirectEdges) = 3
        /\ EdgeCount = 25
        /\ Stored = SplitEdges \cup WaitEdges \cup EnterEdges
                      \cup ForceEdges \cup DirectEdges

C2_Witness ==
    /\ SrcConfig
    /\ pc = "done"
    /\ EdgeCount = 25
    /\ last = <<OUT(1, 2), IN_(2, 3), 1>>

\* C3: in the built network of the source configuration the restricted route
\* 0 -> 1 takes exactly two steps: for every t in 0..T-2 there are edges
\* OUT(0,t) -> TRANSIT(0,t+1) (cap 1) and TRANSIT(0,t+1) -> IN(1,t+2)
\* (cap 100), a transit node has at most one incoming and one outgoing edge,
\* no edge joins OUT(0,t) to an arrival node of hub 1 directly, and what is
\* reached from OUT(0,t) through a transit node is IN(1,t+2) only.
C3_TwoStepDelay ==
    (SrcConfig /\ pc = "done") =>
        /\ \A tt \in 0..(T - 2) :
             /\ HasEdge(OUT(0, tt), TRANSIT(0, tt + 1), 1)
             /\ HasEdge(TRANSIT(0, tt + 1), IN_(1, tt + 2), 100)
        /\ \A x \in TransitNodes :
             /\ Len(graph[x]) <= 1
             /\ Cardinality({e \in Stored : e[3] = x}) <= 1
        /\ \A tt \in Times, t2 \in Times : Links(OUT(0, tt), IN_(1, t2)) = {}
        /\ \A tt \in Times :
             {e[3] : e \in {x \in Stored :
                        /\ x[1] \in TransitNodes
                        /\ Links(OUT(0, tt), x[1]) # {}}}
               = IF tt <= T - 2 THEN {IN_(1, tt + 2)} ELSE {}

C3_Witness ==
    /\ SrcConfig
    /\ pc = "done"
    /\ HasEdge(OUT(0, 1), TRANSIT(0, 2), 1)
    /\ HasEdge(TRANSIT(0, 2), IN_(1, 3), 100)

\* One step of the store: every list is kept or extended at its end by the
\* edge of the latest add_edge call.
AppendOnly ==
    /\ \A n \in DOMAIN graph :
         \/ graph'[n] = graph[n]
         \/ /\ n = last'[1]
            /\ graph'[n] = Append(graph[n], Edge(last'[2], last'[3]))
    /\ \A n \in DOMAIN graph : IsPrefix(graph[n], graph'[n])
    /\ DOMAIN graph' = DOMAIN graph

\* The lists of the departure nodes in the finished source configuration.
FinalOrder ==
    (SrcConfig /\ pc = "done") =>
        /\ \A tt \in 0..(T - 2) :
             graph[OUT(0, tt)] = <<Edge(IN_(0, tt + 1), 100),
                                   Edge(TRANSIT(0, tt + 1), 1)>>
        /\ graph[OUT(0, T - 1)] = <<Edge(IN_(0, T), 100)>>
        /\ \A tt \in 0..(T - 1) :
             /\ graph[OUT(2, tt)] = <<Edge(IN_(2, tt + 1), 100)>>
             /\ graph[OUT(1, tt)] = <<Edge(IN_(2, tt + 1), 1)>>

\* C4: every step leaves each node's list as it was or appends exactly the
\* edge of the add_edge call at the end of the call's source node, so stored
\* edges are never moved, changed or removed; and in the built network of the
\* source configuration each list is in emission order: OUT(0,t) holds its
\* wait edge then its transit edge for t in 0..T-2.
C4_InsertionOrder == [][AppendOnly]_vars /\ []FinalOrder

C4_Witness ==
    /\ SrcConfig
    /\ pc = "done"
    /\ Len(graph[OUT(0, 0)]) = 2
    /\ graph[OUT(0, 0)][2] = Edge(TRANSIT(0, 1), 1)

\* C5: add_edge on a node that already holds MAX_EDGES edges leaves the store
\* unchanged and writes nothing outside the node's edge list; on a node below
\* the bound it appends the edge, the node's count growing by exactly 1.
\* (add_edge returns void: the CapacityExceeded report has no counterpart.)
C5_BoundEnforced ==
    [][ IF Len(graph[last'[1]]) >= MAX_EDGES
        THEN graph' = graph /\ ub' = FALSE /\ pc' # "crashed"
        ELSE /\ graph' = [graph EXCEPT ![last'[1]] =
                             Append(@, Edge(last'[2], last'[3]))]
             /\ Len(graph'[last'[1]]) = Len(graph[last'[1]]) + 1 ]_vars

\* The hubs build_example names, and whether all of them exist.
RouteHubs ==
    {WaitHubA, WaitHubB, RestrictedRoute[1], RestrictedRoute[2],
     NormalRoute[1], NormalRoute[2]}

ValidConfig == RouteHubs \subseteq Hubs

\* C6: a build whose routes name a hub outside [0, N_HUBS) emits no edge:
\* no add_edge call is made and the store stays empty.
C6_InvalidRouteRejected ==
    ~ValidConfig => (last = <<>> /\ graph = EmptyStore /\ ~ub)

\* C7: T = 0 builds only the N_HUBS capacity-split edges whatever
\* M_RESTRICTED is (no wait, transit or unrestricted edge); T = 1, for a
\* configuration whose hard-coded hubs exist, builds no transit edge but some
\* wait and some unrestricted edges; in both cases the build runs to its end
\* with no error and every add_edge on ids in [0, TOTAL_NODES).
C7_BoundaryHorizons ==
    /\ T = 0 =>
         /\ ~ub
         /\ pc # "crashed"
         /\ pc # "done" => ENABLED Next
         /\ last # <<>> => (last[1] \in Nodes /\ last[2] \in Nodes)
         /\ Stored = SplitEdges
         /\ WaitEdges = {} /\ DirectEdges = {} /\ TransitTouching = {}
         /\ pc = "done" => EdgeCount = N_HUBS
    /\ (T = 1 /\ ValidConfig) =>
         /\ ~ub
         /\ pc # "crashed"
         /\ pc # "done" => ENABLED Next
         /\ last # <<>> => (last[1] \in Nodes /\ last[2] \in Nodes)
         /\ TransitTouching = {}
         /\ EnterEdges = {} /\ ForceEdges = {}
         /\ pc = "done" =>
              /\ Cardinality(WaitEdges) = 2
              /\ Cardinality(DirectEdges) = 1
              /\ EdgeCount = 2 * N_HUBS + 3

C7_WitnessT0 ==
    /\ T = 0
    /\ M_RESTRICTED = 2
    /\ pc = "done"
    /\ EdgeCount = N_HUBS

C7_Witness ==
    /\ ValidConfig
    /\ T = 1
    /\ M_RESTRICTED = 2
    /\ pc = "done"
    /\ WaitEdges # {}
    /\ DirectEdges # {}

\* C8: in the built network of the source configuration each waitable hub
\* (0 and 2) has, for every t in 0..T-1, exactly one edge
\* OUT(hub,t) -> IN(hub,t+1), of capacity 100; hub 1 has no edge from
\* OUT(1,t) to any IN(1,t') and no path from OUT(1,t) back to hub 1.
C8_WaitOnlyWhereAllowed ==
    (SrcConfig /\ pc = "done") =>
        /\ \A tt \in 0..(T - 1) : \A h \in {0, 2} :
             /\ Cardinality(Links(OUT(h, tt), IN_(h, tt + 1))) = 1
             /\ HasEdge(OUT(h, tt), IN_(h, tt + 1), 100)
        /\ \A tt \in Times, t2 \in Times : Links(OUT(1, tt), IN_(1, t2)) = {}
        /\ \A tt \in Times :
             ReachableFrom(OUT(1, tt)) \cap {IN_(1, t2) : t2 \in Times} = {}

C8_Witness ==
    /\ SrcConfig
    /\ pc = "done"
    /\ HasEdge(OUT(2, 2), IN_(2, 3), 100)
    /\ IN_(2, 3) \in ReachableFrom(OUT(1, 0))

\* C9: in the built network of the source configuration every arrival node
\* IN(u,t) has exactly one outgoing edge, IN(u,t) -> OUT(u,t) of capacity 1,
\* and every other edge starts at a departure or transit node and ends at an
\* arrival or transit node.
C9_SplitNotBypassable ==
    (SrcConfig /\ pc = "done") =>
        /\ \A uu \in Hubs, tt \in Times :
             graph[IN_(uu, tt)] = <<Edge(OUT(uu, tt), 1)>>
        /\ \A e \in Stored \ SplitEdges :
             /\ e[1] \in OutNodes \cup TransitNodes
             /\ e[1] \notin InNodes
             /\ e[3] \in InNodes \cup TransitNodes
             /\ e[3] \notin OutNodes

C9_Witness ==
    /\ SrcConfig
    /\ pc = "done"
    /\ graph[IN_(2, 3)] = <<Edge(OUT(2, 3), 1)>>
    /\ Cardinality(Stored \ SplitEdges) = 13

\* C10: throughout a build of the source configuration from the zeroed store
\* every add_edge call has its source and its destination id in
\* [0, TOTAL_NODES), the time indices t+1 and t+2 it uses are at most T, no
\* node ever holds more than 2 edges (so at most MAX_EDGES), and no write
\* lands outside graph[] or a node's edges[].
C10_MemorySafe ==
    SrcConfig =>
        /\ ~ub
        /\ pc # "crashed"
        /\ DOMAIN graph = Nodes
        /\ last # <<>> => (last[1] \in Nodes /\ last[2] \in Nodes)
        /\ \A e \in Stored : e[3] \in Nodes
        /\ \A n \in DOMAIN graph : Len(graph[n]) <= 2 /\ Len(graph[n]) <= MAX_EDGES
        /\ pc = "wait2" => t + 1 <= T
        /\ pc = "force" => t + 2 <= T

C10_Witness ==
    /\ SrcConfig
    /\ pc = "force"
    /\ t = T - 2
    /\ last = <<OUT(0, 1), TRANSIT(0, 2), 1>>
    /\ Len(graph[OUT(0, 1)]) = 2

=============================================================================
